---------------------------- MODULE Spec2Model ----------------------------
(***************************************************************************)
(* disk_pie (src/src/main.rs): a concurrent directory scanner that builds  *)
(* a size-annotated tree under a bounded number of threads, and the        *)
(* sunburst layout / hit-testing functions that read that tree.            *)
(*                                                                         *)
(* Spec      : scan_dir, threads interleaved at their shared accesses.     *)
(* FairSpec  : Spec with weak fairness of the scheduler.                   *)
(* LayoutSpec: draw_dir_entry and find_file applied to bounded trees.      *)
(* FrameSpec : Spec followed by the window and the first frame.            *)
(* ClickSpec : LayoutSpec with clicks of the left button.                  *)
(* ViewSpec  : pans, zooms and resizes of the window, with update_view.    *)
(***************************************************************************)
EXTENDS Integers, Sequences, FiniteSets, TLC

(* ------------------------------ bounds -------------------------------- *)

\* Directory entries in the whole scanned tree (all listings together).
MaxEntries == 3

\* Largest size a size query returns for a file.
MaxFileSize == 2

\* Values of the thread cap explored (MAX_THREAD_COUNT is 32 in main.rs:38;
\* the counter starts at 1, so a cap of c allows c - 1 workers).
MaxCap == 3

\* Nodes below the root in a tree handed to the layout.
MaxNodes == 3

\* File sizes handed to the layout are 0 and SizeUnit * 1..MaxSizeSteps.
SizeUnit == 20

MaxSizeSteps == 3

\* Window events (moves, scrolls, resizes) handled in one run.
MaxEvents == 4

\* Zooming in stops at this scale.
MaxScale == 1100

\* const N: f32 = 5.0
N == 5

VARIABLES
    MAX_THREAD_COUNT,   \* main.rs:38, the cap of this run
    fs,                 \* the directory tree on disk, as far as it was read
    thread_count,       \* *thread_count_mutex
    color_count,        \* COLOR_COUNT
    dir_entries,        \* per scanned directory: *dir_entries_mutex
    thr,                \* per thread: its status and its stack of scan_dir frames
    root,               \* MyWindowHandler.root, built by main
    scan,               \* "running", "done" (main has the tree) or "aborted" (main panicked)
    current_dir_path,   \* MyWindowHandler.current_dir_path
    scale,              \* MyWindowHandler.scale
    cull_max_radius,    \* MyWindowHandler.cull_max_radius
    cull_min_angle,     \* MyWindowHandler.cull_min_angle
    cull_max_angle,     \* MyWindowHandler.cull_max_angle
    mouse_angle,        \* mouse_pos seen from center_pos: its angle ...
    mouse_radius,       \* ... and its distance over scale (lines 462-464)
    calls,              \* the draw_dir_entry calls of the latest on_draw, in drawing order
    index_path,         \* the find_file result of the latest on_draw
    center_pos,         \* MyWindowHandler.center_pos, <<x, y>>
    mouse_pos,          \* MyWindowHandler.mouse_pos, <<x, y>>
    window_size,        \* MyWindowHandler.window_size, <<x, y>>
    mouse_left,         \* MyWindowHandler.mouse_left
    events              \* window events handled so far

scanVars == <<MAX_THREAD_COUNT, fs, thread_count, color_count, dir_entries, thr, root, scan>>

\* The fields of the window that the layout model leaves alone.
windowVars == <<center_pos, mouse_pos, window_size, mouse_left, events>>

viewVars == <<current_dir_path, scale, cull_max_radius, cull_min_angle, cull_max_angle,
              mouse_angle, mouse_radius, calls, index_path, windowVars>>

vars == <<scanVars, viewVars>>

(* ------------------------------ DirEntry ------------------------------ *)

\* Option<Vec<DirEntry>>
None == [is_some |-> FALSE, v |-> <<>>]

Some(v) == [is_some |-> TRUE, v |-> v]

\* struct DirEntry; names are modelled by the entry's position in the OS
\* listing (distinct within a directory), the empty string by 0.
DirEntry(name, size, color, subdir) ==
    [name |-> name, size |-> size, color |-> color, subdir |-> subdir]

\* DirEntry::default()
DefaultDirEntry == DirEntry(0, 0, 0, None)

(* ----------------------------- filesystem ----------------------------- *)

\* A path is the sequence of listing positions leading to it from the root.
Parent(p) == SubSeq(p, 1, Len(p) - 1)

Last(p) == p[Len(p)]

\* An entry nobody looked at yet: its kind is decided when the loop reaches it.
Unknown == [kind |-> "?", read |-> "-", len |-> 0, size |-> 0, sized |-> TRUE]

FsDir(read, n) == [kind |-> "dir", read |-> read, len |-> n, size |-> 0, sized |-> TRUE]

\* size: what get_disk_size returns or, when it fails, what
\* metadata().file_size() returns; sized is FALSE when both fail.
FsFile(size, sized) == [kind |-> "file", read |-> "-", len |-> 0, size |-> size, sized |-> sized]

FileSizes == 0..MaxFileSize

EntriesListed == Cardinality(DOMAIN fs) - 1

(* ------------------------------ scan_dir ------------------------------ *)

\* One activation of scan_dir(path): i is the loop index (1-based), threads
\* the join handles pushed so far and not yet joined.
Frame(p) == [path |-> p, pc |-> "read_dir", i |-> 1, threads |-> <<>>]

Running(t) == t \in DOMAIN thr /\ thr[t].status = "running" /\ scan = "running"

Top(t) == Head(thr[t].stack)

SetTop(t, f) == [thr EXCEPT ![t].stack = <<f>> \o Tail(@)]

\* Mutant of HasCapacity: the comparison lets the counter pass the cap.
HasCapacityInclusive(count) == count <= MAX_THREAD_COUNT

\* if *thread_count < MAX_THREAD_COUNT
HasCapacity(count) == count < MAX_THREAD_COUNT

\* Mutant of WriteSlot: the result goes to the first slot still unwritten
\* (results collected in completion order), not to slot i.
WriteSlotFirstFree(entries, i, entry) ==
    LET free == {k \in DOMAIN entries : entries[k].name = 0}
        k == IF free = {} THEN i ELSE CHOOSE m \in free : \A o \in free : m <= o
    IN  [entries EXCEPT ![k] = entry]

\* dir_entries_mutex.lock().unwrap()[i] = entry
WriteSlot(entries, i, entry) == [entries EXCEPT ![i] = entry]

RECURSIVE SumSizesSkipsLast(_)
\* Mutant of SumSizes: the loop stops one entry early.
SumSizesSkipsLast(entries) ==
    IF Len(entries) <= 1 THEN 0
    ELSE Head(entries).size + SumSizesSkipsLast(Tail(entries))

RECURSIVE SumSizes(_)
\* let mut size = 0; for dir_entry in dir_entries.iter() { size += dir_entry.size }
SumSizes(entries) ==
    IF entries = <<>> THEN 0 ELSE Head(entries).size + SumSizes(Tail(entries))

\* Mutant of ScanErr: the failed listing keeps a default slot.
ScanErrKeepsSlot == [size |-> 0, entries |-> <<DirEntry(0, 0, 0, [is_some |-> FALSE, v |-> <<>>])>>]

\* Err(e) => (0, vec![])
ScanErr == [size |-> 0, entries |-> <<>>]

\* Mutant of ReadyToSum: the sum does not wait for the joins.
ReadyToSumNoJoin(f) == f.pc = "body" /\ f.i > fs[f.path].len

\* The for loop over dir is over and every handle was joined.
ReadyToSum(f) == f.pc = "body" /\ f.i > fs[f.path].len /\ f.threads = <<>>

\* scan_dir returns res = (size, entries) in thread t: to the synchronous
\* caller (lines 75-81), to the worker's closure (lines 65-71) or to main
\* (lines 519-525).  Each builds the DirEntry, taking next_color_count(),
\* and stores it.
Return(t, res) ==
    LET st == thr[t].stack
        p == Head(st).path
    IN  /\ color_count' = color_count + 1
        /\ IF Len(st) > 1
           THEN LET caller == st[2]
                IN  /\ dir_entries' = [dir_entries EXCEPT ![caller.path] =
                            WriteSlot(@, caller.i,
                                DirEntry(caller.i, res.size, color_count, Some(res.entries)))]
                    /\ thr' = [thr EXCEPT ![t].stack =
                            <<[caller EXCEPT !.i = @ + 1]>> \o Tail(Tail(st))]
                    /\ UNCHANGED <<root, scan>>
           ELSE IF t # <<>>
           THEN /\ dir_entries' = [dir_entries EXCEPT ![Parent(p)] =
                        WriteSlot(@, Last(p),
                            DirEntry(Last(p), res.size, color_count, Some(res.entries)))]
                /\ thr' = [thr EXCEPT ![t] = [status |-> "finished", stack |-> <<>>]]
                /\ UNCHANGED <<root, scan>>
           ELSE /\ root' = DirEntry(0, res.size, color_count, Some(res.entries))
                /\ scan' = "done"
                /\ thr' = [thr EXCEPT ![t] = [status |-> "finished", stack |-> <<>>]]
                /\ UNCHANGED dir_entries

\* A panic unwinds the whole thread; the handles it held are dropped (the
\* workers behind them are detached and keep running).  A panic of the main
\* thread ends the process.
Panic(t) ==
    /\ thr' = [thr EXCEPT ![t] = [status |-> "panicked", stack |-> <<>>]]
    /\ scan' = IF t = <<>> THEN "aborted" ELSE scan

\* std::fs::read_dir(path) is Ok: collect the listing, allocate the slots.
ReadDirOk(t) ==
    /\ Running(t)
    /\ Top(t).pc = "read_dir"
    /\ \E n \in 0..(MaxEntries - EntriesListed) :
        LET p == Top(t).path
        IN  /\ fs' = [q \in DOMAIN fs \cup {p \o <<k>> : k \in 1..n} |->
                        IF q = p THEN FsDir("ok", n)
                        ELSE IF q \in DOMAIN fs THEN fs[q] ELSE Unknown]
            /\ dir_entries' = (p :> [k \in 1..n |-> DefaultDirEntry]) @@ dir_entries
            /\ thr' = SetTop(t, [Top(t) EXCEPT !.pc = "body"])
    /\ UNCHANGED <<MAX_THREAD_COUNT, thread_count, color_count, root, scan>>
    /\ UNCHANGED viewVars

\* std::fs::read_dir(path) is Err: print, return (0, vec![]).
ReadDirErr(t) ==
    /\ Running(t)
    /\ Top(t).pc = "read_dir"
    /\ fs' = [fs EXCEPT ![Top(t).path] = FsDir("err", 0)]
    /\ Return(t, ScanErr)
    /\ UNCHANGED <<MAX_THREAD_COUNT, thread_count>>
    /\ UNCHANGED viewVars

\* Entry i is a file: get_disk_size, else metadata().file_size(), then the
\* slot write (lines 84-90).  The color is taken before the slot is locked;
\* nobody reads the slot before the join, so both are one step.
VisitFile(t) ==
    /\ Running(t)
    /\ Top(t).pc = "body"
    /\ Top(t).i <= fs[Top(t).path].len
    /\ \E size \in FileSizes :
        LET f == Top(t)
        IN  /\ fs' = [fs EXCEPT ![f.path \o <<f.i>>] = FsFile(size, TRUE)]
            /\ dir_entries' = [dir_entries EXCEPT ![f.path] =
                    WriteSlot(@, f.i, DirEntry(f.i, size, color_count, None))]
            /\ color_count' = color_count + 1
            /\ thr' = SetTop(t, [f EXCEPT !.i = @ + 1])
    /\ UNCHANGED <<MAX_THREAD_COUNT, thread_count, root, scan>>
    /\ UNCHANGED viewVars

\* Entry i is a file and both size queries fail: the unwrap of line 84 panics.
VisitFilePanic(t) ==
    /\ Running(t)
    /\ Top(t).pc = "body"
    /\ Top(t).i <= fs[Top(t).path].len
    /\ fs' = [fs EXCEPT ![Top(t).path \o <<Top(t).i>>] = FsFile(0, FALSE)]
    /\ Panic(t)
    /\ UNCHANGED <<MAX_THREAD_COUNT, thread_count, color_count, dir_entries, root>>
    /\ UNCHANGED viewVars

\* Entry i is a directory and the counter is below the cap: count the new
\* worker under the lock and spawn it (lines 56-72).
VisitDirSpawn(t) ==
    /\ Running(t)
    /\ Top(t).pc = "body"
    /\ Top(t).i <= fs[Top(t).path].len
    /\ HasCapacity(thread_count)
    /\ LET f == Top(t)
           q == f.path \o <<f.i>>
       IN  /\ fs' = [fs EXCEPT ![q] = FsDir("-", 0)]
           /\ thread_count' = thread_count + 1
           /\ thr' = (q :> [status |-> "running", stack |-> <<Frame(q)>>]) @@
                     SetTop(t, [f EXCEPT !.i = @ + 1, !.threads = Append(@, q)])
    /\ UNCHANGED <<MAX_THREAD_COUNT, color_count, dir_entries, root, scan>>
    /\ UNCHANGED viewVars

\* Entry i is a directory and the counter is at the cap: scan it on this
\* thread (lines 73-75).
VisitDirSync(t) ==
    /\ Running(t)
    /\ Top(t).pc = "body"
    /\ Top(t).i <= fs[Top(t).path].len
    /\ ~HasCapacity(thread_count)
    /\ LET f == Top(t)
           q == f.path \o <<f.i>>
       IN  /\ fs' = [fs EXCEPT ![q] = FsDir("-", 0)]
           /\ thr' = [thr EXCEPT ![t].stack = <<Frame(q)>> \o @]
    /\ UNCHANGED <<MAX_THREAD_COUNT, thread_count, color_count, dir_entries, root, scan>>
    /\ UNCHANGED viewVars

\* thread.join().unwrap() on the next handle: blocks until that worker ended.
Join(t) ==
    /\ Running(t)
    /\ Top(t).pc = "body"
    /\ Top(t).i > fs[Top(t).path].len
    /\ Top(t).threads # <<>>
    /\ LET w == Head(Top(t).threads)
       IN  /\ thr[w].status = "finished"
           /\ thr' = [SetTop(t, [Top(t) EXCEPT !.pc = "joined", !.threads = Tail(@)])
                        EXCEPT ![w].status = "joined"]
    /\ UNCHANGED <<MAX_THREAD_COUNT, fs, thread_count, color_count, dir_entries, root, scan>>
    /\ UNCHANGED viewVars

\* thread.join() returns Err (the worker panicked): unwrap panics.
JoinPanic(t) ==
    /\ Running(t)
    /\ Top(t).pc = "body"
    /\ Top(t).i > fs[Top(t).path].len
    /\ Top(t).threads # <<>>
    /\ thr[Head(Top(t).threads)].status = "panicked"
    /\ Panic(t)
    /\ UNCHANGED <<MAX_THREAD_COUNT, fs, thread_count, color_count, dir_entries, root>>
    /\ UNCHANGED viewVars

\* Mutant of Release: the joined worker is not uncounted.
ReleaseForgotten(t) ==
    /\ Running(t)
    /\ Top(t).pc = "joined"
    /\ thr' = SetTop(t, [Top(t) EXCEPT !.pc = "body"])
    /\ UNCHANGED <<MAX_THREAD_COUNT, fs, thread_count, color_count, dir_entries, root, scan>>
    /\ UNCHANGED viewVars

\* *thread_count_mutex.lock().unwrap() -= 1
Release(t) ==
    /\ Running(t)
    /\ Top(t).pc = "joined"
    /\ thread_count' = thread_count - 1
    /\ thr' = SetTop(t, [Top(t) EXCEPT !.pc = "body"])
    /\ UNCHANGED <<MAX_THREAD_COUNT, fs, color_count, dir_entries, root, scan>>
    /\ UNCHANGED viewVars

\* Lines 99-106: clone the slots, add the sizes up, return.
Sum(t) ==
    /\ Running(t)
    /\ ReadyToSum(Top(t))
    /\ LET entries == dir_entries[Top(t).path]
       IN  Return(t, [size |-> SumSizes(entries), entries |-> entries])
    /\ UNCHANGED <<MAX_THREAD_COUNT, fs, thread_count>>
    /\ UNCHANGED viewVars

\* The window does not exist while main scans.
ViewIdle ==
    /\ current_dir_path = <<>>
    /\ scale = <<0, 1>>
    /\ cull_max_radius = <<0, 1>>
    /\ cull_min_angle = <<0, 1>>
    /\ cull_max_angle = <<0, 1>>
    /\ mouse_angle = <<0, 1>>
    /\ mouse_radius = <<0, 1>>
    /\ calls = <<>>
    /\ index_path = <<>>
    /\ center_pos = <<<<0, 1>>, <<0, 1>>>>
    /\ mouse_pos = <<<<0, 1>>, <<0, 1>>>>
    /\ window_size = <<0, 0>>
    /\ mouse_left = FALSE
    /\ events = 0

\* main (line 519): scan_dir(root_folder, &Arc::new(Mutex::new(1)))
Init ==
    /\ MAX_THREAD_COUNT \in 1..MaxCap
    /\ fs = (<<>> :> FsDir("-", 0))
    /\ thread_count = 1
    /\ color_count = 0
    /\ dir_entries = <<>>
    /\ thr = (<<>> :> [status |-> "running", stack |-> <<Frame(<<>>)>>])
    /\ root = DefaultDirEntry
    /\ scan = "running"
    /\ ViewIdle

Next ==
    \/ \E t \in DOMAIN thr : ReadDirOk(t)
    \/ \E t \in DOMAIN thr : ReadDirErr(t)
    \/ \E t \in DOMAIN thr : VisitFile(t)
    \/ \E t \in DOMAIN thr : VisitFilePanic(t)
    \/ \E t \in DOMAIN thr : VisitDirSpawn(t)
    \/ \E t \in DOMAIN thr : VisitDirSync(t)
    \/ \E t \in DOMAIN thr : Join(t)
    \/ \E t \in DOMAIN thr : JoinPanic(t)
    \/ \E t \in DOMAIN thr : Release(t)
    \/ \E t \in DOMAIN thr : Sum(t)

Spec == Init /\ [][Next]_vars

FairSpec == Spec /\ WF_vars(Next)

(* ----------------------------- f32 values ------------------------------ *)
(* Angles and radii are exact fractions <<numerator, denominator>> in      *)
(* lowest terms; <<0, 0>> is NaN (0.0 / 0.0).  Angles are counted in turns *)
(* (2.0*PI is <<1, 1>>) and screen lengths in units of 1/(2.0*PI) pixel,   *)
(* so that angle * scale * N has the value the code computes in radians    *)
(* and pixels.  Rounding of f32 is not modelled.                           *)

RECURSIVE GCD(_, _)
GCD(a, b) == IF b = 0 THEN a ELSE GCD(b, a % b)

Abs(a) == IF a < 0 THEN -a ELSE a

NaN == <<0, 0>>

IsNaN(x) == x[2] = 0

Frac(n, d) ==
    IF d = 0 THEN NaN
    ELSE LET g == GCD(Abs(n), Abs(d))
             sgn == IF d < 0 THEN -1 ELSE 1
         IN  <<sgn * (n \div g), sgn * (d \div g)>>

Zero == <<0, 1>>

One == <<1, 1>>

\* The sums and products are taken over the least common denominator and
\* after cancelling, which keeps the integers small.
FAdd(x, y) ==
    IF IsNaN(x) \/ IsNaN(y) THEN NaN
    ELSE LET g == GCD(x[2], y[2])
         IN  Frac(x[1] * (y[2] \div g) + y[1] * (x[2] \div g), (x[2] \div g) * y[2])

FNeg(x) == <<-x[1], x[2]>>

FSub(x, y) == FAdd(x, FNeg(y))

FMul(x, y) ==
    IF IsNaN(x) \/ IsNaN(y) THEN NaN
    ELSE IF x[1] = 0 \/ y[1] = 0 THEN Zero
    ELSE LET g == GCD(Abs(x[1]), y[2])
             h == GCD(Abs(y[1]), x[2])
         IN  Frac((x[1] \div g) * (y[1] \div h), (x[2] \div h) * (y[2] \div g))

\* a as f32 / b as f32 for sizes a, b.  A positive size over 0 (infinity)
\* does not arise: a directory's size is the sum of its children's sizes.
FDiv(a, b) == Frac(a, b)

\* Every comparison with NaN is false.
FLt(x, y) ==
    /\ ~IsNaN(x) /\ ~IsNaN(y)
    /\ LET g == GCD(x[2], y[2]) IN x[1] * (y[2] \div g) < y[1] * (x[2] \div g)

FGt(x, y) == FLt(y, x)

FGe(x, y) ==
    /\ ~IsNaN(x) /\ ~IsNaN(y)
    /\ LET g == GCD(x[2], y[2]) IN x[1] * (y[2] \div g) >= y[1] * (x[2] \div g)

FLe(x, y) == FGe(y, x)

RECURSIVE Powi(_, _)
\* f32::powi
Powi(x, k) == IF k = 0 THEN One ELSE FMul(x, Powi(x, k - 1))

\* 2.0*PI
TWO_PI == One

(* ------------------------- trees handed to the view -------------------- *)

LayoutSizes == {0} \cup {SizeUnit * k : k \in 1..MaxSizeSteps}

RECURSIVE TreesOfSize(_), Forests(_)
\* The shapes with n nodes: a file of some size, or a directory over a forest.
TreesOfSize(n) ==
    (IF n = 1 THEN {DirEntry(0, size, 0, None) : size \in LayoutSizes} ELSE {})
        \cup {DirEntry(0, 0, 0, Some(f)) : f \in Forests(n - 1)}

\* The sequences of shapes with n nodes in all.
Forests(n) ==
    IF n = 0 THEN {<<>>}
    ELSE UNION {{<<t>> \o f : t \in TreesOfSize(k), f \in Forests(n - k)} : k \in 1..n}

RECURSIVE Scanned(_, _, _), ScannedSeq(_, _, _)
\* The node scan_dir builds for a shape on one thread, with its name, the
\* directory sizes summed and the colors in the order of next_color_count();
\* c is the color counter before; gives [node, c].
Scanned(shape, name, c) ==
    IF ~shape.subdir.is_some
    THEN [node |-> DirEntry(name, shape.size, c, None), c |-> c + 1]
    ELSE LET sub == ScannedSeq(shape.subdir.v, 1, c)
         IN  [node |-> DirEntry(name, SumSizes(sub.v), sub.c, Some(sub.v)), c |-> sub.c + 1]

ScannedSeq(shapes, k, c) ==
    IF k > Len(shapes) THEN [v |-> <<>>, c |-> c]
    ELSE LET first == Scanned(shapes[k], k, c)
             rest == ScannedSeq(shapes, k + 1, first.c)
         IN  [v |-> <<first.node>> \o rest.v, c |-> rest.c]

\* The trees main can hold after scan_dir, up to MaxNodes entries.
ScannedTrees ==
    {Scanned(DirEntry(0, 0, 0, Some(f)), 0, 0).node :
        f \in UNION {Forests(n) : n \in 0..MaxNodes}}

(* --------------------------- draw_dir_entry ---------------------------- *)

\* N - N * f32::powi((N-1.0) / N, distance as i32)
RadiusAt(distance) == FSub(<<N, 1>>, FMul(<<N, 1>>, Powi(Frac(N - 1, N), distance)))

\* Mutant of Culled: a window that wraps through zero is tested like any other.
CulledNoWrap(start_angle, end_angle) ==
    FGt(start_angle, cull_max_angle) \/ FLt(end_angle, cull_min_angle)

\* Lines 157-161: the span lies outside the visible window of angles.
Culled(start_angle, end_angle) ==
    IF FGt(cull_min_angle, cull_max_angle)
    THEN FGt(start_angle, cull_max_angle) /\ FLt(end_angle, cull_min_angle)
    ELSE FGt(start_angle, cull_max_angle) \/ FLt(end_angle, cull_min_angle)

\* Lines 163-166
DrawRadius(dir_entry, distance, enable_recursion) ==
    IF enable_recursion /\ dir_entry.subdir.is_some THEN RadiusAt(distance) ELSE <<N, 1>>

\* Mutant of AngleDelta: every child gets an equal share of the parent's span.
AngleDeltaEqualShares(subdir_entry, dir_entry, start_angle, end_angle) ==
    FMul(FDiv(1, Len(dir_entry.subdir.v)), FSub(end_angle, start_angle))

\* subdir_entry.size as f32 / dir_entry.size as f32 * (end_angle - start_angle)
AngleDelta(subdir_entry, dir_entry, start_angle, end_angle) ==
    FMul(FDiv(subdir_entry.size, dir_entry.size), FSub(end_angle, start_angle))

\* Mutant of AtLeastOnePixel: a footprint of exactly one pixel is too small.
AtLeastOnePixelStrict(angle_delta) == FGt(FMul(FMul(angle_delta, scale), <<N, 1>>), One)

\* angle_delta * wh.scale * N >= 1.0
AtLeastOnePixel(angle_delta) == FGe(FMul(FMul(angle_delta, scale), <<N, 1>>), One)

\* One call of draw_dir_entry: the node (its index path from the node the
\* frame starts at) and the arguments; culled when the call returned at
\* lines 157-161, else radius is that of the polygon it drew.
Call(path, distance, start_angle, end_angle, enable_recursion, culled, radius) ==
    [path |-> path, distance |-> distance, start_angle |-> start_angle,
     end_angle |-> end_angle, enable_recursion |-> enable_recursion,
     culled |-> culled, radius |-> radius]

RECURSIVE draw_dir_entry(_, _, _, _, _, _), DrawSubdir(_, _, _, _, _, _, _, _, _)
\* The calls made by draw_dir_entry(graphics, dir_entry, wh, distance,
\* start_angle, end_angle, enable_recursion), each listed where its polygon
\* is drawn: the children's before the node's own (line 211).
draw_dir_entry(dir_entry, path, distance, start_angle, end_angle, enable_recursion) ==
    IF Culled(start_angle, end_angle)
    THEN <<Call(path, distance, start_angle, end_angle, enable_recursion, TRUE, Zero)>>
    ELSE LET radius == DrawRadius(dir_entry, distance, enable_recursion)
         IN  (IF enable_recursion /\ FLt(radius, cull_max_radius) /\ dir_entry.subdir.is_some
              THEN DrawSubdir(dir_entry, path, distance, start_angle, end_angle,
                              1, start_angle, Zero, 0)
              ELSE <<>>)
             \o <<Call(path, distance, start_angle, end_angle, enable_recursion, FALSE, radius)>>

\* The loop of lines 173-198 from entry k on; carry_index is the position of
\* subdir_entry_carry (0 for None).
DrawSubdir(dir_entry, path, distance, start_angle, end_angle, k, angle, angle_delta_carry, carry_index) ==
    LET subdir_entries == dir_entry.subdir.v
    IN  IF k > Len(subdir_entries) THEN <<>>
        ELSE IF subdir_entries[k].size = 0
        THEN DrawSubdir(dir_entry, path, distance, start_angle, end_angle,
                        k + 1, angle, angle_delta_carry, carry_index)
        ELSE LET angle_delta == AngleDelta(subdir_entries[k], dir_entry, start_angle, end_angle)
             IN  IF AtLeastOnePixel(angle_delta)
                 THEN LET flushed == carry_index # 0
                          angle1 == IF flushed THEN FAdd(angle, angle_delta_carry) ELSE angle
                      IN  (IF flushed
                           THEN draw_dir_entry(subdir_entries[carry_index], path \o <<carry_index>>,
                                    distance + 1, angle, FAdd(angle, angle_delta_carry), FALSE)
                           ELSE <<>>)
                          \o draw_dir_entry(subdir_entries[k], path \o <<k>>,
                                    distance + 1, angle1, FAdd(angle1, angle_delta), TRUE)
                          \o DrawSubdir(dir_entry, path, distance, start_angle, end_angle,
                                    k + 1, FAdd(angle1, angle_delta), Zero, 0)
                 ELSE LET carry1 == FAdd(angle_delta_carry, angle_delta)
                          index1 == IF carry_index = 0 THEN k ELSE carry_index
                      IN  IF AtLeastOnePixel(carry1)
                          THEN draw_dir_entry(subdir_entries[index1], path \o <<index1>>,
                                    distance + 1, angle, FAdd(angle, carry1), FALSE)
                               \o DrawSubdir(dir_entry, path, distance, start_angle, end_angle,
                                    k + 1, FAdd(angle, carry1), Zero, 0)
                          ELSE DrawSubdir(dir_entry, path, distance, start_angle, end_angle,
                                    k + 1, angle, carry1, index1)

(* ------------------------------ find_file ------------------------------ *)

\* Lines 339-342
FindRadius(dir_entry, distance) ==
    IF dir_entry.subdir.is_some THEN RadiusAt(distance) ELSE <<N, 1>>

\* Mutant of SelectsEntry: the test forgets where the entry's span starts.
SelectsEntryByWidth(angle, angle_delta, select_angle) == FGt(angle_delta, select_angle)

\* if angle + angle_delta > select_angle
SelectsEntry(angle, angle_delta, select_angle) == FGt(FAdd(angle, angle_delta), select_angle)

RECURSIVE find_file(_, _, _, _, _, _), FindInSubdir(_, _, _, _, _, _, _, _)
\* MyWindowHandler::find_file; an index is the entry's position in the
\* listing, counted from 1.  v.push(i) after the recursive call: the result
\* lists the deepest index first.
find_file(dir_entry, select_angle, select_radius, distance, start_angle, end_angle) ==
    IF FLt(select_radius, FindRadius(dir_entry, distance)) THEN <<>>
    ELSE IF dir_entry.subdir.is_some
    THEN FindInSubdir(dir_entry, select_angle, select_radius, distance, start_angle, end_angle,
                      1, start_angle)
    ELSE <<>>

\* The loop of lines 350-358 from entry i on.
FindInSubdir(dir_entry, select_angle, select_radius, distance, start_angle, end_angle, i, angle) ==
    LET subdir_entries == dir_entry.subdir.v
    IN  IF i > Len(subdir_entries) THEN <<>>
        ELSE LET angle_delta == AngleDelta(subdir_entries[i], dir_entry, start_angle, end_angle)
             IN  IF SelectsEntry(angle, angle_delta, select_angle)
                 THEN Append(find_file(subdir_entries[i], select_angle, select_radius,
                                       distance + 1, angle, FAdd(angle, angle_delta)), i)
                 ELSE FindInSubdir(dir_entry, select_angle, select_radius, distance,
                                   start_angle, end_angle, i + 1, FAdd(angle, angle_delta))

\* The divisions subdir_entry.size / dir_entry.size of line 176 that the
\* call of draw_dir_entry recorded as c evaluated for node dir_entry, as
\* pairs <<dividend, divisor>>: one for every entry the loop does not skip,
\* if the call went into the loop.
DrawDivisions(c, dir_entry) ==
    IF /\ ~c.culled /\ c.enable_recursion /\ FLt(c.radius, cull_max_radius)
       /\ dir_entry.subdir.is_some
    THEN {<<dir_entry.subdir.v[k].size, dir_entry.size>> :
            k \in {j \in 1..Len(dir_entry.subdir.v) : dir_entry.subdir.v[j].size # 0}}
    ELSE {}

RECURSIVE FindDivisions(_, _, _, _, _, _), FindDivisionsIn(_, _, _, _, _, _, _, _)
\* The divisions subdir_entries[i].size / dir_entry.size of line 351 that
\* find_file evaluates, as pairs <<dividend, divisor>>.
FindDivisions(dir_entry, select_angle, select_radius, distance, start_angle, end_angle) ==
    IF FLt(select_radius, FindRadius(dir_entry, distance)) \/ ~dir_entry.subdir.is_some
    THEN {}
    ELSE FindDivisionsIn(dir_entry, select_angle, select_radius, distance, start_angle,
                         end_angle, 1, start_angle)

FindDivisionsIn(dir_entry, select_angle, select_radius, distance, start_angle, end_angle, i, angle) ==
    LET subdir_entries == dir_entry.subdir.v
    IN  IF i > Len(subdir_entries) THEN {}
        ELSE LET angle_delta == AngleDelta(subdir_entries[i], dir_entry, start_angle, end_angle)
             IN  {<<subdir_entries[i].size, dir_entry.size>>} \cup
                 (IF SelectsEntry(angle, angle_delta, select_angle)
                  THEN FindDivisions(subdir_entries[i], select_angle, select_radius,
                                     distance + 1, angle, FAdd(angle, angle_delta))
                  ELSE FindDivisionsIn(dir_entry, select_angle, select_radius, distance,
                                       start_angle, end_angle, i + 1, FAdd(angle, angle_delta)))

(* ----------------------------- the window ------------------------------ *)

\* Mutant of Walk: the walk stays at the node it starts from.
WalkStaysAtStart(node, path) == node

RECURSIVE Walk(_, _)
\* Lines 376-383 and 439-447: follow current_dir_path down from a node,
\* stopping at a file.
Walk(node, path) ==
    IF path = <<>> \/ ~node.subdir.is_some THEN node
    ELSE Walk(node.subdir.v[Head(path)], Tail(path))

\* index_path.reverse()
Reverse(seq) == [k \in 1..Len(seq) |-> seq[Len(seq) + 1 - k]]

\* self.current_dir_path.pop(): nothing happens to an empty vector.
Pop(path) == IF path = <<>> THEN <<>> ELSE SubSeq(path, 1, Len(path) - 1)

\* Mutant of NextDirPath: the picked indices are appended as find_file gave them.
NextDirPathAsPicked(path, picked) ==
    IF Len(picked) = 0 THEN Pop(path) ELSE path \o picked

\* Lines 386-391: what a click within the circle makes of current_dir_path.
NextDirPath(path, picked) ==
    IF Len(picked) = 0 THEN Pop(path) ELSE path \o Reverse(picked)

\* <<scale, cull_min_angle, cull_max_angle, cull_max_radius>> as update_view
\* can leave them.  The scales put the one-pixel threshold (with N) at 1/2
\* and at 1/100 of a turn; the bounds show everything, a window of angles,
\* a window that wraps through zero, or a small radius.
Views == {<<<<2, 5>>, Zero, TWO_PI, <<10, 1>>>>,
          <<<<20, 1>>, Zero, TWO_PI, <<10, 1>>>>,
          <<<<20, 1>>, <<1, 4>>, <<5, 8>>, <<10, 1>>>>,
          <<<<2, 5>>, <<7, 8>>, <<1, 8>>, <<10, 1>>>>,
          <<<<20, 1>>, Zero, TWO_PI, <<3, 2>>>>}

\* Where the pointer can be: angles in turns, radii in units of scale.
MouseAngles == {<<1, 16>>, <<11, 16>>}

MouseRadii == {<<1, 2>>, <<3, 2>>, <<2, 1>>, <<4, 1>>, <<6, 1>>}

\* on_mouse_move with no button held, after a frame was drawn: the pointer
\* is elsewhere and the frame is due again.
OnMouseMove ==
    /\ scan = "done"
    /\ ~mouse_left
    /\ calls # <<>>
    /\ \E a \in MouseAngles, r \in MouseRadii :
        /\ <<a, r>> # <<mouse_angle, mouse_radius>>
        /\ mouse_angle' = a
        /\ mouse_radius' = r
    /\ calls' = <<>>
    /\ index_path' = <<>>
    /\ UNCHANGED <<scanVars, current_dir_path, scale, cull_max_radius, cull_min_angle, cull_max_angle>>
    /\ UNCHANGED windowVars

\* on_draw: draw the node current_dir_path leads to over the full turn and
\* look up the entry under the pointer (lines 439-470).
OnDraw ==
    /\ scan = "done"
    /\ calls = <<>>
    /\ LET current_node == Walk(root, current_dir_path)
       IN  /\ calls' = draw_dir_entry(current_node, <<>>, 1, Zero, TWO_PI, TRUE)
           /\ index_path' =
                IF FLe(mouse_radius, <<N, 1>>)
                THEN find_file(current_node, mouse_angle, mouse_radius, 1, Zero, TWO_PI)
                ELSE <<>>
    /\ UNCHANGED <<scanVars, current_dir_path, scale, cull_max_radius, cull_min_angle,
                   cull_max_angle, mouse_angle, mouse_radius>>
    /\ UNCHANGED windowVars

\* on_mouse_button_down(Left), the button being up before: look up the
\* entry under the pointer from the focused node and move the focus (lines
\* 369-393).  The frame on screen is out of date afterwards.
OnMouseButtonDown ==
    /\ scan = "done"
    /\ ~mouse_left
    /\ mouse_left' = TRUE
    /\ current_dir_path' =
            IF FLe(mouse_radius, <<N, 1>>)
            THEN NextDirPath(current_dir_path,
                    find_file(Walk(root, current_dir_path), mouse_angle, mouse_radius,
                              1, Zero, TWO_PI))
            ELSE current_dir_path
    /\ calls' = <<>>
    /\ index_path' = <<>>
    /\ UNCHANGED <<scanVars, scale, cull_max_radius, cull_min_angle, cull_max_angle,
                   mouse_angle, mouse_radius, center_pos, mouse_pos, window_size, events>>

\* on_mouse_button_up(Left)
OnMouseButtonUp ==
    /\ scan = "done"
    /\ mouse_left
    /\ mouse_left' = FALSE
    /\ UNCHANGED <<scanVars, current_dir_path, scale, cull_max_radius, cull_min_angle,
                   cull_max_angle, mouse_angle, mouse_radius, calls, index_path,
                   center_pos, mouse_pos, window_size, events>>

\* The window right after main built it around a scanned tree (lines
\* 517-541), for the scales and culling bounds update_view can leave.
LayoutInit ==
    /\ MAX_THREAD_COUNT = 1
    /\ fs = <<>>
    /\ thread_count = 1
    /\ color_count = 0
    /\ dir_entries = <<>>
    /\ thr = <<>>
    /\ root \in ScannedTrees
    /\ scan = "done"
    /\ current_dir_path = <<>>
    /\ \E view \in Views :
        /\ scale = view[1]
        /\ cull_min_angle = view[2]
        /\ cull_max_angle = view[3]
        /\ cull_max_radius = view[4]
    /\ mouse_angle = Zero
    /\ mouse_radius = Zero
    /\ calls = <<>>
    /\ index_path = <<>>
    /\ center_pos = <<<<0, 1>>, <<0, 1>>>>
    /\ mouse_pos = <<<<0, 1>>, <<0, 1>>>>
    /\ window_size = <<0, 0>>
    /\ mouse_left = FALSE
    /\ events = 0

LayoutNext ==
    \/ OnMouseMove
    \/ OnDraw

LayoutSpec == LayoutInit /\ [][LayoutNext]_vars

\* main after scan_dir returned (lines 527-541): the window is built around
\* the tree, with a scale and culling bounds update_view can leave.
OpenWindow ==
    /\ scan = "done"
    /\ scale = Zero
    /\ \E view \in Views :
        /\ scale' = view[1]
        /\ cull_min_angle' = view[2]
        /\ cull_max_angle' = view[3]
        /\ cull_max_radius' = view[4]
    /\ UNCHANGED <<scanVars, current_dir_path, mouse_angle, mouse_radius, calls, index_path>>
    /\ UNCHANGED windowVars

\* window.run_loop(window_handler): frames are drawn once the window exists.
RunLoop == scale # Zero /\ OnDraw

\* main from the scan to the first frame.
FrameNext ==
    \/ Next
    \/ OpenWindow
    \/ RunLoop

FrameSpec == Init /\ [][FrameNext]_vars

\* Clicks: the window as main leaves it (everything in view), the pointer
\* moved between frames and the left button pressed and released.
ClickInit ==
    /\ LayoutInit
    /\ scale = <<20, 1>>
    /\ cull_min_angle = Zero
    /\ cull_max_angle = TWO_PI
    /\ cull_max_radius = <<10, 1>>

ClickNext ==
    \/ OnMouseMove
    \/ OnDraw
    \/ OnMouseButtonDown
    \/ OnMouseButtonUp

ClickSpec == ClickInit /\ [][ClickNext]_vars

(* --------------------- the window's view of the plane ------------------ *)
(* Here center_pos, mouse_pos and window_size are lengths in the unit of   *)
(* scale; the handlers below are homogeneous in lengths.  magnitude() is   *)
(* taken down to a whole unit and atan2 to the nearest sixteenth of a turn.*)

Min(a, b) == IF a < b THEN a ELSE b

\* x as f32 for an integer x
F(x) == <<x, 1>>

FMax(x, y) == IF FLt(x, y) THEN y ELSE x

\* The integer part of a fraction that is not negative.
Floor(x) == x[1] \div x[2]

FAbs(x) == <<Abs(x[1]), x[2]>>

RECURSIVE ISqrtIn(_, _, _)
\* The largest r in lo..hi with r * r <= n.
ISqrtIn(n, lo, hi) ==
    IF lo >= hi THEN lo
    ELSE LET mid == (lo + hi + 1) \div 2
         IN  IF mid * mid <= n THEN ISqrtIn(n, mid, hi) ELSE ISqrtIn(n, lo, mid - 1)

\* Vec2::magnitude of <<dx, dy>>
Magnitude(dx, dy) ==
    LET a == Floor(FAbs(dx))
        b == Floor(FAbs(dy))
    IN  F(ISqrtIn(a * a + b * b, 0, a + b))

\* f32::atan2(y, x), made positive as in lines 372 and 325, in turns.
Atan2(y, x) ==
    LET ax == FAbs(x)
        ay == FAbs(y)
        q == IF ay = Zero THEN 0
             ELSE IF FLt(FMul(F(5), ay), ax) THEN 0
             ELSE IF FLt(FMul(F(3), ay), FMul(F(2), ax)) THEN 1
             ELSE IF FLt(FMul(F(2), ay), FMul(F(3), ax)) THEN 2
             ELSE IF FLt(ay, FMul(F(5), ax)) THEN 3
             ELSE 4
        sixteenths == IF y[1] >= 0 THEN (IF x[1] >= 0 THEN q ELSE 8 - q)
                      ELSE (IF x[1] >= 0 THEN 16 - q ELSE 8 + q)
    IN  Frac(sixteenths, 16)

\* u32::min(window_size.x, window_size.y) as f32 / (2.0 * (N + 1.0))
MinScale(size) == Frac(Min(size[1], size[2]), 2 * (N + 1))

\* Mutant of ClampedScale: the scale is left as it is.
ClampedScaleNever(s, size) == s

\* Lines 263-265
ClampedScale(s, size) == IF FLt(s, MinScale(size)) THEN MinScale(size) ELSE s

\* Lines 267-281: (left, right, top, bottom) of the centered square.
Square(size) ==
    IF size[1] > size[2]
    THEN [left |-> Frac(size[1] - size[2], 2), right |-> Frac(size[1] + size[2], 2),
          top |-> Zero, bottom |-> F(size[2])]
    ELSE [left |-> Zero, right |-> F(size[1]),
          top |-> Frac(size[2] - size[1], 2), bottom |-> Frac(size[2] + size[1], 2)]

\* Lines 283-290 and 292-299: at most low + reach, then at least high - reach.
Clamped(v, low, high, reach) ==
    LET v_max == FAdd(low, reach)
        v_min == FSub(high, reach)
        v1 == IF FGt(v, v_max) THEN v_max ELSE v
    IN  IF FLt(v1, v_min) THEN v_min ELSE v1

\* Lines 283-299
ClampedCenter(c, s, size) ==
    LET sq == Square(size)
        reach == FMul(s, F(N + 1))
    IN  <<Clamped(c[1], sq.left, sq.right, reach), Clamped(c[2], sq.top, sq.bottom, reach)>>

\* Lines 302-307
Corners(size) == <<<<Zero, Zero>>, <<F(size[1]), Zero>>, <<Zero, F(size[2])>>,
                   <<F(size[1]), F(size[2])>>>>

\* Lines 309-315
CullMaxRadius(c, s, size) ==
    LET radius(k) == FMul(Magnitude(FSub(Corners(size)[k][1], c[1]),
                                    FSub(Corners(size)[k][2], c[2])),
                          <<s[2], s[1]>>)
    IN  FMax(FMax(FMax(FMax(Zero, radius(1)), radius(2)), radius(3)), radius(4))

\* angles.sort_by(..): the k-th smallest of the four corner angles.
Sorted(angles, k) ==
    CHOOSE a \in {angles[j] : j \in 1..4} :
        /\ Cardinality({j \in 1..4 : FLt(angles[j], a)}) < k
        /\ Cardinality({j \in 1..4 : FLe(angles[j], a)}) >= k

\* Lines 317-335: <<cull_min_angle, cull_max_angle>>
CullAngles(c, size) ==
    IF /\ FGe(c[1], Zero) /\ FLe(c[1], F(size[1]))
       /\ FGe(c[2], Zero) /\ FLe(c[2], F(size[2]))
    THEN <<Zero, TWO_PI>>
    ELSE LET angles == [k \in 1..4 |->
                            Atan2(FSub(Corners(size)[k][2], c[2]),
                                  FSub(Corners(size)[k][1], c[1]))]
         IN  IF FGt(Sorted(angles, 4), FAdd(Sorted(angles, 1), <<1, 2>>))
             THEN <<Sorted(angles, 3), Sorted(angles, 2)>>
             ELSE <<Sorted(angles, 1), Sorted(angles, 4)>>

\* Lines 371-372 and 462-463: the angle of pointer m seen from center c.
MouseAngle(m, c) == Atan2(FSub(m[2], c[2]), FSub(m[1], c[1]))

\* Lines 373 and 464
MouseRadius(m, c, s) ==
    FMul(Magnitude(FSub(m[1], c[1]), FSub(m[2], c[2])), <<s[2], s[1]>>)

\* update_view on scale s and center c in a window of the given size: the
\* fields it leaves.
update_view(s, c, size) ==
    LET s1 == ClampedScale(s, size)
        c1 == ClampedCenter(c, s1, size)
    IN  /\ scale' = s1
        /\ center_pos' = c1
        /\ cull_max_radius' = CullMaxRadius(c1, s1, size)
        /\ cull_min_angle' = CullAngles(c1, size)[1]
        /\ cull_max_angle' = CullAngles(c1, size)[2]

\* The pointer as the next click or frame sees it (lines 371-373, 462-464);
\* the frame on screen is out of date.
Redraw ==
    /\ mouse_angle' = MouseAngle(mouse_pos', center_pos')
    /\ mouse_radius' = MouseRadius(mouse_pos', center_pos', scale')
    /\ calls' = <<>>
    /\ index_path' = <<>>

\* let window_size = UVec2::new(800, 800)
InitialWindowSize == <<800, 800>>

\* Where on_mouse_move finds the pointer.
MousePositions == {<<F(400), F(400)>>, <<F(500), F(500)>>, <<F(800), F(400)>>}

\* The sizes on_resize is called with.
WindowSizes == {InitialWindowSize, <<1200, 600>>}

\* The lines of MouseScrollDistance::Lines: ratios 1/2, 11/10 and 4.
ScrollLines == {-5, 1, 30}

\* The tree behind the window: root{A, B} with sizes 3 : 2.
ViewTrees ==
    {t \in ScannedTrees :
        /\ Len(t.subdir.v) = 2
        /\ t.subdir.v[1] = DirEntry(1, 3 * SizeUnit, 0, None)
        /\ t.subdir.v[2] = DirEntry(2, 2 * SizeUnit, 1, None)}

\* on_mouse_move(position): a pan while the left button is held (lines 408-415).
OnMouseMoveTo ==
    /\ scan = "done"
    /\ events < MaxEvents
    /\ \E position \in MousePositions \ {mouse_pos} :
        /\ mouse_pos' = position
        /\ IF mouse_left
           THEN update_view(scale,
                    <<FAdd(center_pos[1], FSub(position[1], mouse_pos[1])),
                      FAdd(center_pos[2], FSub(position[2], mouse_pos[2]))>>,
                    window_size)
           ELSE UNCHANGED <<scale, center_pos, cull_max_radius, cull_min_angle, cull_max_angle>>
    /\ Redraw
    /\ events' = events + 1
    /\ UNCHANGED <<scanVars, current_dir_path, window_size, mouse_left>>

\* let ratio = 1.0 + 0.1 * delta as f32
Ratio(delta) == Frac(10 + delta, 10)

\* self.scale *= ratio
ZoomedScale(s, ratio) == FMul(s, ratio)

\* Mutant of ZoomedCenter: the center moves towards the pointer by the
\* ratio's excess over one.
ZoomedCenterTowardsPointer(c, m, ratio) ==
    <<FAdd(c[1], FMul(FSub(m[1], c[1]), FSub(ratio, One))),
      FAdd(c[2], FMul(FSub(m[2], c[2]), FSub(ratio, One)))>>

\* self.center_pos = self.mouse_pos + (self.center_pos - self.mouse_pos) * ratio
ZoomedCenter(c, m, ratio) ==
    <<FAdd(m[1], FMul(FSub(c[1], m[1]), ratio)), FAdd(m[2], FMul(FSub(c[2], m[2]), ratio))>>

\* on_mouse_wheel_scroll(Lines { y: delta }) (lines 417-424); zooming in
\* ends at MaxScale.
OnMouseWheelScroll ==
    /\ scan = "done"
    /\ events < MaxEvents
    /\ \E delta \in ScrollLines :
        /\ FLe(ZoomedScale(scale, Ratio(delta)), F(MaxScale))
        /\ update_view(ZoomedScale(scale, Ratio(delta)),
                       ZoomedCenter(center_pos, mouse_pos, Ratio(delta)), window_size)
    /\ UNCHANGED <<scanVars, current_dir_path, mouse_pos, window_size, mouse_left>>
    /\ Redraw
    /\ events' = events + 1

\* on_resize(size_pixels) (lines 426-432)
OnResize ==
    /\ scan = "done"
    /\ events < MaxEvents
    /\ \E size_pixels \in WindowSizes \ {window_size} :
        /\ window_size' = size_pixels
        /\ update_view(FMul(scale, Frac(size_pixels[2], window_size[2])),
                       <<FAdd(center_pos[1], Frac(size_pixels[1] - window_size[1], 2)),
                         FAdd(center_pos[2], Frac(size_pixels[2] - window_size[2], 2))>>,
                       size_pixels)
    /\ UNCHANGED <<scanVars, current_dir_path, mouse_pos, mouse_left>>
    /\ Redraw
    /\ events' = events + 1

\* The window main builds (lines 512-541), after its update_view().
ViewInit ==
    /\ MAX_THREAD_COUNT = 1
    /\ fs = <<>>
    /\ thread_count = 1
    /\ color_count = 0
    /\ dir_entries = <<>>
    /\ thr = <<>>
    /\ root \in ViewTrees
    /\ scan = "done"
    /\ current_dir_path = <<>>
    /\ window_size = InitialWindowSize
    /\ mouse_pos = <<Frac(InitialWindowSize[1], 2), Frac(InitialWindowSize[2], 2)>>
    /\ mouse_left = FALSE
    /\ LET c0 == <<Frac(InitialWindowSize[1], 2), Frac(InitialWindowSize[2], 2)>>
           s1 == ClampedScale(Frac(InitialWindowSize[2], 12), InitialWindowSize)
           c1 == ClampedCenter(c0, s1, InitialWindowSize)
       IN  /\ scale = s1
           /\ center_pos = c1
           /\ cull_max_radius = CullMaxRadius(c1, s1, InitialWindowSize)
           /\ cull_min_angle = CullAngles(c1, InitialWindowSize)[1]
           /\ cull_max_angle = CullAngles(c1, InitialWindowSize)[2]
           /\ mouse_angle = MouseAngle(c0, c1)
           /\ mouse_radius = MouseRadius(c0, c1, s1)
    /\ calls = <<>>
    /\ index_path = <<>>
    /\ events = 0

ViewNext ==
    \/ OnMouseMoveTo
    \/ OnMouseWheelScroll
    \/ OnResize
    \/ OnMouseButtonDown
    \/ OnMouseButtonUp

ViewSpec == ViewInit /\ [][ViewNext]_vars

(* ------------------------- properties: scanner ------------------------- *)

Workers == DOMAIN thr \ {<<>>}

\* Scan threads alive: the initial caller and every worker not yet joined.
AliveThreads == 1 + Cardinality({w \in Workers : thr[w].status # "joined"})

RECURSIVE Sigma(_)
\* The sum of the sizes of a sequence of nodes.
Sigma(nodes) ==
    IF nodes = <<>> THEN 0
    ELSE nodes[Len(nodes)].size + Sigma(SubSeq(nodes, 1, Len(nodes) - 1))

RECURSIVE NodeAt(_, _)
\* The node the index path p leads to from node.
NodeAt(node, p) ==
    IF p = <<>> THEN node ELSE NodeAt(node.subdir.v[Head(p)], Tail(p))

\* The slot entry p's result is written to.
SlotOf(p) == dir_entries[Parent(p)][Last(p)]

Written(e) == e.name # 0

\* The directories of the scanned tree, as index paths in the result.
Dirs == {p \in DOMAIN fs : fs[p].kind = "dir"}

\* C1: the shared counter never exceeds MAX_THREAD_COUNT, and neither does
\* the number of scan threads alive at the same time (the initial caller
\* plus every spawned worker not yet joined).
C1_ThreadsBounded ==
    /\ thread_count <= MAX_THREAD_COUNT
    /\ AliveThreads <= MAX_THREAD_COUNT

\* Reached: the cap is MaxCap, the counter is at it and as many threads are alive.
C1_Witness ==
    /\ MAX_THREAD_COUNT = MaxCap
    /\ thread_count = MAX_THREAD_COUNT
    /\ AliveThreads = MAX_THREAD_COUNT
    /\ \E w \in Workers : thr[w].status = "running"

\* C2: in the tree of a completed scan every directory's size is the sum
\* of its children's sizes, down from the root.
C2_SizeIsSumOfChildren ==
    scan = "done" =>
        \A p \in Dirs :
            NodeAt(root, p).size = Sigma(NodeAt(root, p).subdir.v)

\* Reached: a completed scan with a worker-scanned subdirectory of non-zero
\* size beside another entry of non-zero size.
C2_Witness ==
    /\ scan = "done"
    /\ root.size >= 2
    /\ \E w \in Workers : Len(w) = 1 /\ 0 < NodeAt(root, w).size /\ NodeAt(root, w).size < root.size

\* The result children of directory p are, slot by slot, the entries of its listing.
ListingOrderKept(p) ==
    LET node == NodeAt(root, p)
    IN  /\ node.subdir.is_some
        /\ Len(node.subdir.v) = fs[p].len
        /\ \A i \in 1..fs[p].len :
            LET c == node.subdir.v[i]
                e == fs[p \o <<i>>]
            IN  /\ c.name = i
                /\ c.subdir.is_some = (e.kind = "dir")
                /\ e.kind = "file" => c.size = e.size

\* A step writes a slot only if it was unwritten, writes the entry of that
\* slot's own index, and a worker's slot is written by the step that ends
\* that worker.
SlotsWrittenOnceByOwner ==
    \A p \in DOMAIN dir_entries : \A i \in DOMAIN dir_entries[p] :
        dir_entries'[p][i] # dir_entries[p][i] =>
            /\ ~Written(dir_entries[p][i])
            /\ dir_entries'[p][i].name = i
            /\ \A q \in DOMAIN dir_entries : \A k \in DOMAIN dir_entries[q] :
                <<q, k>> # <<p, i>> => dir_entries'[q][k] = dir_entries[q][k]
            /\ (p \o <<i>>) \in Workers =>
                thr[p \o <<i>>].status = "running" /\ thr'[p \o <<i>>].status = "finished"

\* C3: the i-th child returned for a directory is the node of the i-th
\* entry of its listing, whatever order the workers finish in; each worker
\* writes only the slot of its own index and no slot is written twice.
C3_ChildrenInListingOrder ==
    /\ [](scan = "done" => \A p \in Dirs : ListingOrderKept(p))
    /\ [][SlotsWrittenOnceByOwner]_vars

\* Reached: a completed scan in which the worker of the second entry
\* finished (took its color) before the worker of the first.
C3_Witness ==
    /\ scan = "done"
    /\ {<<1>>, <<2>>} \subseteq Workers
    /\ NodeAt(root, <<2>>).color < NodeAt(root, <<1>>).color

\* C4: a directory's size is computed only after every worker spawned for
\* it was joined and every slot has its final value: a directory result
\* stored anywhere has no worker of that directory unjoined and no default
\* child.
C4_SumAfterJoins ==
    \A p \in Dirs \ {<<>>} :
        (Written(SlotOf(p)) /\ fs[p].read = "ok") =>
            /\ \A w \in Workers : Parent(w) = p => thr[w].status = "joined"
            /\ Len(SlotOf(p).subdir.v) = fs[p].len
            /\ \A k \in 1..fs[p].len : Written(SlotOf(p).subdir.v[k])

\* Reached: a stored directory result whose directory had a worker that
\* scanned a non-empty subdirectory, while the scan is still running.
C4_Witness ==
    /\ scan = "running"
    /\ \E p \in Dirs \ {<<>>} :
        /\ Written(SlotOf(p))
        /\ \E w \in Workers :
            Parent(w) = p /\ thr[w].status = "joined" /\ fs[w].read = "ok" /\ fs[w].len > 0

\* C5: a scan eventually completes under fair scheduling.
C5_ScanCompletes == <>(scan = "done")

\* No running scan is stuck: some thread can always take a step.
NoDeadlock == scan = "running" => ENABLED Next

\* Under fair scheduling the scan ends, by returning or by the panic of main.
ScanEnds == <>(scan \in {"done", "aborted"})

C7_SizeFailureDoesNotAbort ==
    \A p \in DOMAIN fs :
        (fs[p].kind = "file" /\ ~fs[p].sized) =>
            /\ Written(SlotOf(p))
            /\ scan # "aborted"
            /\ \A t \in DOMAIN thr : thr[t].status # "panicked"

(* -------------------------- properties: layout ------------------------- *)

\* The node the latest frame was drawn from.
ViewRoot == Walk(root, current_dir_path)

\* The calls draw_dir_entry made for the entries of the node at path p, in
\* the order it made them.
ChildCalls(p) == SelectSeq(calls, LAMBDA c : c.path # <<>> /\ Parent(c.path) = p)

\* A call that went into the loop over the node's entries (lines 168-169),
\* for a directory of non-zero size.
Recursed(c) ==
    /\ ~c.culled
    /\ c.enable_recursion
    /\ FLt(c.radius, cull_max_radius)
    /\ NodeAt(ViewRoot, c.path).subdir.is_some
    /\ NodeAt(ViewRoot, c.path).size > 0

\* The spans of a sequence of calls follow each other from angle a to angle b.
Partition(ch, a, b) ==
    /\ ch # <<>>
    /\ ch[1].start_angle = a
    /\ ch[Len(ch)].end_angle = b
    /\ \A j \in 1..Len(ch) : FLt(ch[j].start_angle, ch[j].end_angle)
    /\ \A j \in 1..(Len(ch) - 1) : ch[j + 1].start_angle = ch[j].end_angle

\* C8: at every level the layout recurses into, the spans passed to the
\* child calls are contiguous, start at start_angle and cover the parent's
\* span exactly.
C8_ChildSpansPartitionParent ==
    \A n \in 1..Len(calls) :
        Recursed(calls[n]) =>
            Partition(ChildCalls(calls[n].path), calls[n].start_angle, calls[n].end_angle)

\* The share of a turn that sizes a out of b make of the span from x to y.
Share(a, b, x, y) == Frac(a * (y[1] * x[2] - x[1] * y[2]), b * x[2] * y[2])

\* The tree root(100){A(60), B(40)} as a scan leaves it.
Root100 ==
    DirEntry(0, 100, 2, Some(<<DirEntry(1, 60, 0, None), DirEntry(2, 40, 1, None)>>))

\* C9: under a call that recurses, every entry above the one-pixel
\* threshold is drawn with recursion enabled on the span that starts at
\* start_angle plus the share of the entries before it and is as wide as
\* its own share; root(100){A(60), B(40)} over the full turn, at a scale
\* that puts both above the threshold, gives A the first 3/5 of the turn
\* and B the rest.
C9_LargeChildSpans ==
    /\ \A n \in 1..Len(calls) :
        Recursed(calls[n]) =>
            LET c == calls[n]
                parent == NodeAt(ViewRoot, c.path)
                kids == parent.subdir.v
            IN  \A k \in 1..Len(kids) :
                    LET width == Share(kids[k].size, parent.size, c.start_angle, c.end_angle)
                        before == Share(Sigma(SubSeq(kids, 1, k - 1)), parent.size,
                                        c.start_angle, c.end_angle)
                        begin == FAdd(c.start_angle, before)
                    IN  (kids[k].size * scale[1] * N * (c.end_angle[1] * c.start_angle[2]
                                - c.start_angle[1] * c.end_angle[2])
                            >= parent.size * scale[2] * c.start_angle[2] * c.end_angle[2]) =>
                        \E m \in 1..Len(calls) :
                            /\ calls[m].path = c.path \o <<k>>
                            /\ calls[m].enable_recursion
                            /\ calls[m].start_angle = begin
                            /\ calls[m].end_angle = FAdd(begin, width)
    /\ (/\ root = Root100 /\ calls # <<>> /\ AtLeastOnePixel(<<2, 5>>)
        /\ cull_min_angle = Zero /\ cull_max_angle = TWO_PI /\ FLt(One, cull_max_radius)) =>
        /\ \E m \in 1..Len(calls) :
            /\ calls[m].path = <<1>>
            /\ calls[m].start_angle = Zero /\ calls[m].end_angle = <<3, 5>>
        /\ \E m \in 1..Len(calls) :
            /\ calls[m].path = <<2>>
            /\ calls[m].start_angle = <<3, 5>> /\ calls[m].end_angle = TWO_PI

\* Reached: the frame of root(100){A(60), B(40)} over the full turn.
C9_Witness ==
    /\ root = Root100
    /\ cull_min_angle = Zero /\ cull_max_angle = TWO_PI
    /\ AtLeastOnePixel(<<2, 5>>)
    /\ Len(calls) = 3
    /\ \A n \in 1..Len(calls) : calls[n].enable_recursion /\ ~calls[n].culled

\* The pointer is strictly inside the part of call c's slice that stays
\* visible: within its span, beyond the radius of its parent's slice (drawn
\* over it afterwards) and short of its own radius.
PointerInside(c) ==
    /\ FLt(c.start_angle, mouse_angle) /\ FLt(mouse_angle, c.end_angle)
    /\ FLt(RadiusAt(c.distance - 1), mouse_radius) /\ FLt(mouse_radius, c.radius)

\* A slice drawn for its own node with recursion enabled (no carry slice).
DrawnSlices == {n \in 1..Len(calls) : ~calls[n].culled /\ calls[n].enable_recursion}

\* C10 as claimed: for a pointer strictly inside such a slice, find_file
\* returns the index path of the slice's node.
C10_FindFileReturnsPath ==
    \A n \in DrawnSlices : PointerInside(calls[n]) => index_path = calls[n].path

\* C10 as amended: for a pointer strictly inside such a slice, find_file
\* returns the indices of the path to the slice's node, the deepest first.
C10_FindFileReturnsPathReversed ==
    \A n \in DrawnSlices : PointerInside(calls[n]) => index_path = Reverse(calls[n].path)

\* Reached: the pointer is inside the slice of a node two levels down whose
\* two indices differ.
C10_Witness ==
    \E n \in DrawnSlices :
        /\ PointerInside(calls[n])
        /\ Len(calls[n].path) = 2
        /\ calls[n].path[1] # calls[n].path[2]

(* -------------------------- properties: clicks ------------------------- *)

\* A step that handles a press of the left button.
LeftClick == ~mouse_left /\ mouse_left'

RECURSIVE Descends(_, _, _, _, _)
\* Path q leads from node (at depth distance, on the span from a to b) down
\* through directories the pointer is not short of, every index in range
\* and the pointer's angle inside the span of every node on the way: at or
\* after the start of its share of the parent's span and before its end.
Descends(node, q, distance, a, b) ==
    q = <<>> \/
        /\ node.subdir.is_some
        /\ FGe(mouse_radius, RadiusAt(distance))
        /\ Head(q) \in 1..Len(node.subdir.v)
        /\ node.size > 0
        /\ LET kids == node.subdir.v
               begin == FAdd(a, Share(Sigma(SubSeq(kids, 1, Head(q) - 1)), node.size, a, b))
               end == FAdd(begin, Share(kids[Head(q)].size, node.size, a, b))
           IN  /\ FLe(begin, mouse_angle)
               /\ FLt(mouse_angle, end)
               /\ Descends(kids[Head(q)], Tail(q), distance + 1, begin, end)

\* C11: a left click at radius at most N with an empty picker result removes
\* the last index of current_dir_path (an empty path stays empty), and the
\* result is empty when the pointer is short of the focused node's radius;
\* with a non-empty result the path keeps its content as a prefix and is
\* extended by the indices that lead from the focused node down to the
\* selected node, in that order.
C11_ClickUpdatesPath ==
    [][(LeftClick /\ FLe(mouse_radius, <<N, 1>>)) =>
        LET picked == find_file(ViewRoot, mouse_angle, mouse_radius, 1, Zero, TWO_PI)
            old == current_dir_path
            new == current_dir_path'
        IN  /\ FLt(mouse_radius, FindRadius(ViewRoot, 1)) => picked = <<>>
            /\ picked = <<>> =>
                    IF old = <<>> THEN new = <<>>
                    ELSE Len(new) = Len(old) - 1 /\ new = SubSeq(old, 1, Len(new))
            /\ picked # <<>> =>
                    /\ Len(new) = Len(old) + Len(picked)
                    /\ SubSeq(new, 1, Len(old)) = old
                    /\ Descends(ViewRoot, SubSeq(new, Len(old) + 1, Len(new)), 1, Zero, TWO_PI)
      ]_vars

\* Reached: the button is down after a click short of the focused node's
\* radius that left the focus on the second entry of the root: clicks had
\* taken the focus two levels down, and this one took it back up one level.
C11_Witness ==
    /\ Len(current_dir_path) = 1
    /\ mouse_left
    /\ FLt(mouse_radius, One)
    /\ Len(root.subdir.v) >= 2
    /\ current_dir_path[1] = 2
    /\ root.subdir.v[2].subdir.is_some
    /\ Len(root.subdir.v[2].subdir.v) >= 1

\* C18: current_dir_path always leads to a directory node.
C18_FocusIsDirectory == ViewRoot.subdir.is_some

(* ------------------------ properties: the window ----------------------- *)

\* C12 as claimed: with the pointer at (500,500) and the center at
\* (400,400), a scroll of ratio 1.1 moves the center to (410,410) and
\* multiplies scale by 1.1, before update_view.
C12_ZoomExample ==
    (mouse_pos = <<F(500), F(500)>> /\ center_pos = <<F(400), F(400)>>) =>
        /\ ZoomedCenter(center_pos, mouse_pos, Ratio(1)) = <<F(410), F(410)>>
        /\ ZoomedScale(scale, Ratio(1)) = Frac(11 * scale[1], 10 * scale[2])

\* C12 as amended: with the pointer at (500,500) and the center at
\* (400,400), a scroll of ratio 1.1 moves the center to (390,390) and
\* multiplies scale by 1.1, before update_view.
C12_ZoomExampleAnchored ==
    (mouse_pos = <<F(500), F(500)>> /\ center_pos = <<F(400), F(400)>>) =>
        /\ ZoomedCenter(center_pos, mouse_pos, Ratio(1)) = <<F(390), F(390)>>
        /\ ZoomedScale(scale, Ratio(1)) = Frac(11 * scale[1], 10 * scale[2])

\* Reached: the window of main after that scroll (update_view changes
\* nothing there): the center is at (390,390) and the scale 1.1 times the
\* initial 800/12.
C12_Witness ==
    /\ events = 2
    /\ mouse_pos = <<F(500), F(500)>>
    /\ center_pos = <<F(390), F(390)>>
    /\ scale = <<220, 3>>
    /\ window_size = InitialWindowSize

RECURSIVE LeCF(_, _, _, _)
\* p/q <= u/v for integers p, u >= 0 and q, v > 0, by comparing the
\* continued fractions (no products).
LeCF(p, q, u, v) ==
    LET a == p \div q
        b == u \div v
    IN  IF a # b THEN a < b
        ELSE IF p % q = 0 THEN TRUE
        ELSE IF u % v = 0 THEN FALSE
        ELSE LeCF(v, u % v, q, p % q)

\* a * a + b * b <= r * r for fractions a, b, r that are not negative.
WithinReach(a, b, r) ==
    IF a = Zero THEN FLe(b, r)
    ELSE IF b = Zero THEN FLe(a, r)
    ELSE IF FGe(a, r) \/ FGe(b, r) THEN FALSE
    ELSE LET l == (a[2] \div GCD(a[2], b[2])) * b[2]
             m == (l \div GCD(l, r[2])) * r[2]
             ia == a[1] * (m \div a[2])
             ib == b[1] * (m \div b[2])
             ir == r[1] * (m \div r[2])
         IN  LeCF(ib, ir - ia, ir + ia, ib)

\* How far v lies outside the interval from 0 to high.
Outside(v, high) ==
    IF FLt(v, Zero) THEN FNeg(v) ELSE IF FGt(v, F(high)) THEN FSub(v, F(high)) ELSE Zero

\* C13: after every pan, zoom and resize the circle of radius N * scale
\* around center_pos meets the window rectangle.
C13_RootCircleOnScreen ==
    WithinReach(Outside(center_pos[1], window_size[1]), Outside(center_pos[2], window_size[2]),
                FMul(F(N), scale))

\* C19 as claimed: in a window of positive size, after every pan, zoom and
\* resize the scale is at least the minimum scale and the root circle is as
\* wide as the smaller window dimension: 2 * N * scale >= min(width, height).
C19_MinScaleFillsWindow ==
    (window_size[1] > 0 /\ window_size[2] > 0) =>
        /\ FGe(FMul(F(2 * (N + 1)), scale), F(Min(window_size[1], window_size[2])))
        /\ FGe(FMul(F(2 * N), scale), F(Min(window_size[1], window_size[2])))

\* C19 as amended: in a window of positive size, after every pan, zoom and
\* resize the scale is at least the minimum scale, which makes the circle
\* of radius (N + 1) * scale as wide as the smaller window dimension:
\* 2 * (N + 1) * scale >= min(width, height).
C19_MinScaleFillsWindowWithMargin ==
    (window_size[1] > 0 /\ window_size[2] > 0) =>
        FGe(FMul(F(2 * (N + 1)), scale), F(Min(window_size[1], window_size[2])))

\* Reached: after one resize and one scroll with ratio 1/2 (the pointer
\* was not moved) the scale is at the minimum of the resized window.
C19_Witness ==
    /\ window_size = <<1200, 600>>
    /\ events = 2
    /\ mouse_pos = <<F(400), F(400)>>
    /\ scale = <<50, 1>>

(* ------------------------- properties: culling ------------------------- *)

\* Angle x is in the visible window: from cull_min_angle to cull_max_angle,
\* or through zero when cull_min_angle > cull_max_angle.
InWindow(x) ==
    IF FGt(cull_min_angle, cull_max_angle)
    THEN FGe(x, cull_min_angle) \/ FLe(x, cull_max_angle)
    ELSE FGe(x, cull_min_angle) /\ FLe(x, cull_max_angle)

\* The span of call c and the window have an angle in common: then an end
\* of one of them lies in the other.
MeetsWindow(c) ==
    \E x \in {c.start_angle, c.end_angle, cull_min_angle, cull_max_angle} :
        FLe(c.start_angle, x) /\ FLe(x, c.end_angle) /\ InWindow(x)

\* The entries of the node of call c that the layout would draw with
\* recursion enabled if it went into the node.
LargeEntries(c) ==
    LET node == NodeAt(ViewRoot, c.path)
    IN  IF ~node.subdir.is_some \/ node.size = 0 THEN {}
        ELSE {k \in 1..Len(node.subdir.v) :
                FGe(FMul(FMul(Share(node.subdir.v[k].size, node.size,
                                    c.start_angle, c.end_angle), scale), F(N)), One)}

\* C14: a call of the layout returns without drawing exactly when its span
\* has no angle in common with the visible window (which wraps through
\* zero when cull_min_angle > cull_max_angle), whatever its radius; and a
\* node drawn with recursion enabled has its entries laid out exactly when
\* its own radius is below cull_max_radius.
C14_CullingIsExact ==
    \A n \in 1..Len(calls) :
        LET c == calls[n]
        IN  /\ c.culled <=> ~MeetsWindow(c)
            /\ (~c.culled /\ c.enable_recursion) =>
                    \A k \in LargeEntries(c) :
                        (\E m \in 1..Len(calls) : calls[m].path = c.path \o <<k>>)
                            <=> FLt(RadiusAt(c.distance), cull_max_radius)

\* Reached: a frame under a window that wraps through zero in which one
\* entry was skipped and another was drawn.
C14_Witness ==
    /\ FGt(cull_min_angle, cull_max_angle)
    /\ \E n, m \in 1..Len(calls) :
        /\ calls[n].culled
        /\ ~calls[m].culled /\ calls[m].path # <<>>

(* ---------------------- properties: zero-size nodes -------------------- *)

\* In the latest frame draw_dir_entry divided by no directory size of zero.
DrawNeverDividesByZero ==
    \A n \in 1..Len(calls) :
        \A d \in DrawDivisions(calls[n], NodeAt(ViewRoot, calls[n].path)) : d[2] # 0

\* C17: neither draw_dir_entry nor find_file, as the frame calls them,
\* evaluates child.size / parent.size for a directory of total size zero.
C17_NoDivisionByZeroSize ==
    calls # <<>> =>
        /\ DrawNeverDividesByZero
        /\ FLe(mouse_radius, <<N, 1>>) =>
                \A d \in FindDivisions(ViewRoot, mouse_angle, mouse_radius, 1, Zero, TWO_PI) :
                    d[2] # 0

(* ---------------------- properties: level of detail -------------------- *)

\* The footprint in pixels of the entries i..j of the node of call c, taken
\* together, is at least one.
Footprint(c, i, j) ==
    LET node == NodeAt(ViewRoot, c.path)
    IN  FGe(FMul(FMul(Share(Sigma(SubSeq(node.subdir.v, i, j)), node.size,
                            c.start_angle, c.end_angle), scale), F(N)), One)

\* Call m draws the entries k..j of the node of call c as one carry slice:
\* entry k is the first that is not skipped after what was drawn before,
\* none of them has a footprint of its own, the slice spans their summed
\* angle, and it was flushed either because with entry j the summed
\* footprint reached one pixel or because the next entry not skipped has a
\* footprint of its own.
CarryGroup(c, m, k, j) ==
    LET node == NodeAt(ViewRoot, c.path)
        kids == node.subdir.v
        begin == FAdd(c.start_angle,
                      Share(Sigma(SubSeq(kids, 1, k - 1)), node.size, c.start_angle, c.end_angle))
    IN  /\ kids[k].size # 0 /\ kids[j].size # 0
        /\ \A i \in k..j : ~Footprint(c, i, i)
        /\ m.start_angle = begin
        /\ m.end_angle = FAdd(begin, Share(Sigma(SubSeq(kids, k, j)), node.size,
                                           c.start_angle, c.end_angle))
        /\ \/ Footprint(c, k, j) /\ ~Footprint(c, k, j - 1)
           \/ /\ ~Footprint(c, k, j)
              /\ \E l \in (j + 1)..Len(kids) :
                    /\ Footprint(c, l, l)
                    /\ \A i \in (j + 1)..(l - 1) : kids[i].size = 0

\* C20: under a call that goes into its node, an entry is handed on with
\* recursion enabled if and only if its own angle_delta * scale * N is at
\* least 1; any other call for an entry has recursion disabled, nothing is
\* drawn below it, and it stands for a carry group of which the entry is
\* the first: it spans the summed angle of the group, flushed when the
\* next large entry appeared or when the summed footprint reached 1.
C20_LevelOfDetail ==
    \A n \in 1..Len(calls) :
        Recursed(calls[n]) =>
            LET c == calls[n]
                kids == NodeAt(ViewRoot, c.path).subdir.v
            IN  \A k \in 1..Len(kids) :
                    /\ (\E m \in 1..Len(calls) :
                            calls[m].path = c.path \o <<k>> /\ calls[m].enable_recursion)
                        <=> Footprint(c, k, k)
                    /\ \A m \in 1..Len(calls) :
                        (calls[m].path = c.path \o <<k>> /\ ~calls[m].enable_recursion) =>
                            /\ \E j \in k..Len(kids) : CarryGroup(c, calls[m], k, j)
                            /\ \A x \in 1..Len(calls) :
                                    Len(calls[x].path) > Len(calls[m].path) =>
                                        SubSeq(calls[x].path, 1, Len(calls[m].path)) # calls[m].path

\* Reached: a frame with a carry slice of two entries, flushed when their
\* summed footprint reached one pixel, next to an entry drawn with
\* recursion enabled.
C20_Witness ==
    \E m, x \in 1..Len(calls) :
        /\ calls[m].path = <<1>> /\ ~calls[m].enable_recursion /\ ~calls[m].culled
        /\ Len(root.subdir.v) = 3
        /\ root.subdir.v[1].size = root.subdir.v[2].size
        /\ calls[m].end_angle = Share(2 * root.subdir.v[1].size, root.size, Zero, TWO_PI)
        /\ calls[x].path = <<3>> /\ calls[x].enable_recursion

(* --------------------- properties: colors and counter ------------------ *)

\* The slices of the latest frame, in the order they were drawn.
Slices == SelectSeq(calls, LAMBDA c : ~c.culled)

\* C15: in a frame a slice drawn later has a larger color index than one
\* drawn earlier, and the color index of every node of the tree is the one
\* it has when one thread scans the tree alone, whatever the interleaving
\* of the workers was.
C15_ColorsFollowDrawOrder ==
    /\ \A i, j \in 1..Len(Slices) :
        i < j => NodeAt(root, Slices[i].path).color < NodeAt(root, Slices[j].path).color
    /\ scan = "done" => root = Scanned(root, 0, 0).node

\* The scan threads at work: the initial caller and every worker that has
\* not finished.
ActiveWorkers == 1 + Cardinality({w \in Workers : thr[w].status = "running"})

\* C16: during a scan the shared counter is the number of scan threads at
\* work, the initial caller included.
C16_CounterIsActiveWorkers == scan = "running" => thread_count = ActiveWorkers

(* --------------------- properties: the path of the focus --------------- *)

RECURSIVE ValidPath(_, _)
\* Every index of path is a position in the entries of the node reached
\* so far from node, and every node an index is taken from is a directory.
ValidPath(node, path) ==
    path = <<>> \/
        /\ node.subdir.is_some
        /\ Head(path) \in 1..Len(node.subdir.v)
        /\ ValidPath(node.subdir.v[Head(path)], Tail(path))

\* C21: after any sequence of left clicks current_dir_path is a valid path
\* of the tree: walked from the root, every index is in the range of the
\* entries of the node reached so far and every node before the last index
\* is a directory.
C21_PathIsValid == ValidPath(root, current_dir_path)

\* Reached: clicks have taken the focus to a file two levels down (the
\* last index may lead to a file, none before it does).
C21_Witness ==
    /\ Len(current_dir_path) = 2
    /\ mouse_left
    /\ ValidPath(root, current_dir_path)
    /\ ~NodeAt(root, current_dir_path).subdir.is_some

(* ------------------- properties: the counter's balance ----------------- *)

\* The threads that have joined a worker and not yet uncounted it.
Releasing == {t \in DOMAIN thr : thr[t].stack # <<>> /\ Top(t).pc = "joined"}

\* The counter is its initial value plus the workers counted and not yet
\* uncounted: those not joined and those joined by a thread that is about
\* to decrement.  It is never below its initial value and is back at it
\* when main has the tree.
CounterBalanced ==
    /\ thread_count = 1 + Cardinality({w \in Workers : thr[w].status # "joined"})
                        + Cardinality(Releasing)
    /\ thread_count >= 1
    /\ scan = "done" => thread_count = 1

\* A step that changes the counter either counts exactly one worker that
\* it starts, or uncounts one as the next step of a thread that has just
\* joined a worker; a worker is joined by the thread scanning the
\* directory it was spawned for, without a change of the counter.
CounterSteps ==
    /\ thread_count' # thread_count =>
        \/ /\ thread_count' = thread_count + 1
           /\ Cardinality(DOMAIN thr' \ DOMAIN thr) = 1
        \/ /\ thread_count' = thread_count - 1
           /\ DOMAIN thr' = DOMAIN thr
           /\ \E t \in Releasing :
                thr'[t].stack # <<>> /\ Head(thr'[t].stack).pc = "body"
    /\ \A w \in Workers :
        (thr[w].status # "joined" /\ thr'[w].status = "joined") =>
            /\ thread_count' = thread_count
            /\ \E t \in DOMAIN thr :
                /\ thr[t].stack # <<>> /\ thr'[t].stack # <<>>
                /\ Top(t).pc = "body"
                /\ Top(t).path = Parent(w)
                /\ Head(thr'[t].stack).pc = "joined"

\* C22: every increment of the counter is matched by exactly one
\* decrement, made by the spawning thread after it joined that worker; the
\* counter is back at its initial value when the top-level scan_dir has
\* returned and is never below it.
C22_CounterRestored == []CounterBalanced /\ [][CounterSteps]_vars

\* Reached: a completed scan that had two workers, both joined, with the
\* counter back at 1.
C22_Witness ==
    /\ scan = "done"
    /\ thread_count = 1
    /\ Cardinality(Workers) >= 2
    /\ \A w \in Workers : thr[w].status = "joined"

=============================================================================
